---- MODULE Spec2Model ----
(***************************************************************************)
(* Model of the notebook video_analyzer_phi3.ipynb: a pipeline that        *)
(* samples frames from an uploaded video (Step 2), extracts and            *)
(* transcribes its audio (Step 3), captions every sampled frame (Steps 4   *)
(* and 5) and writes a report (Step 6).  The cells run in order; an        *)
(* uncaught exception ends the run.  The notebook can be replayed with a   *)
(* new upload: the scratch folder, the files on disk and the objects of    *)
(* the kernel survive from one run to the next.  The two for loops have no *)
(* way out but their end, and each is one step of the model.  The cells    *)
(* that install packages and that download the results are left out.       *)
(*                                                                         *)
(* Frame rates are kept in hundredths of a frame per second (2997 is       *)
(* 29.97 fps), text is kept as sequences of ASCII codes where its order    *)
(* matters (file names) and as structured values elsewhere.                *)
(***************************************************************************)
EXTENDS Integers, Sequences, FiniteSets, TLC

VARIABLES
    pc,                 \* the cell (and the place in it) that runs next
    run,                \* number of uploads so far
    uploads,            \* the videos the operator may upload
    video_path,         \* the uploaded video (Step 1)
    output_folder,      \* content of the folder 'frames', in creation order
    stale_frames,       \* history: files the run found in the folder
    vidcap,             \* TRUE while a cv2.VideoCapture handle is open
    fps,                \* Step 2, in hundredths
    frame_interval,     \* Step 2
    saved_count,        \* Step 2
    total_frames,       \* Step 2
    read_failures,      \* history: reads of Step 2 that returned no image
    video,              \* TRUE while a moviepy VideoFileClip is open
    audio_path,         \* state of the file extracted_audio.wav
    whisper_called,     \* the Whisper model was asked to transcribe in this run
    transcript,         \* Step 3
    frame_files,        \* Step 5
    frame_descriptions, \* Step 5
    report,             \* Step 6, the report text
    report_path,        \* state of the file video_analysis_report.txt
    err                 \* the exception that ended the run

vars == <<pc, run, uploads, video_path, output_folder, stale_frames, vidcap, fps,
          frame_interval, saved_count, total_frames, read_failures, video,
          audio_path, whisper_called, transcript, frame_files,
          frame_descriptions, report, report_path, err>>

(***************************************************************************)
(* Bounds of the model.                                                    *)
(***************************************************************************)
MaxTotal == 3          \* largest frame count of a short upload
MaxRuns == 2           \* uploads in one behaviour
MinuteCount == 31      \* frames sampled from the one-minute upload
LongCount == 10001     \* frames sampled from the long upload

(***************************************************************************)
(* Constants of the program.                                               *)
(***************************************************************************)
FallbackFps == 3000    \* fps = 30, in hundredths
SamplingSeconds == 2   \* int(fps * 2): a frame every 2 seconds
ReportSeconds == 2     \* i * 2: 2 seconds per frame
PadWidth == 4          \* frame_{saved_count:04d}
ClockWidth == 2        \* {int(mins):02d}:{int(secs):02d}
PreviewBudget == 150   \* [:150]

NoError == "none"
Unset == "<unset>"
NoReport == <<>>

(***************************************************************************)
(* Text.                                                                   *)
(***************************************************************************)
Min(a, b) == IF a < b THEN a ELSE b

RECURSIVE Digits(_)
\* str(n) for n >= 0, as ASCII codes
Digits(n) == IF n < 10 THEN <<48 + n>> ELSE Digits(n \div 10) \o <<48 + (n % 10)>>

\* format(n, "0<w>d"): zeros on the left up to the width w, never a cut
ZeroPad(n, w) ==
    LET d == Digits(n)
    IN  [j \in 1..(IF Len(d) < w THEN w - Len(d) ELSE 0) |-> 48] \o d

\* "frame_"
FramePrefix == <<102, 114, 97, 109, 101, 95>>
\* ".jpg"
JpgSuffix == <<46, 106, 112, 103>>

\* f"frame_{saved_count:04d}.jpg"
FrameName(n) == FramePrefix \o ZeroPad(n, PadWidth) \o JpgSuffix

\* a < b for two Python str: the first differing character decides, a proper
\* prefix comes first
LexLess(a, b) ==
    \E k \in 0..Min(Len(a), Len(b)) :
        /\ \A j \in 1..k : a[j] = b[j]
        /\ \/ k = Len(a) /\ k < Len(b)
           \/ k < Len(a) /\ k < Len(b) /\ a[k + 1] < b[k + 1]

\* fnmatch(name, "*.jpg")
IsJpg(name) ==
    /\ Len(name) >= Len(JpgSuffix)
    /\ SubSeq(name, Len(name) - Len(JpgSuffix) + 1, Len(name)) = JpgSuffix

(***************************************************************************)
(* The uploads.  A video is what the decoders report of it: the frame rate *)
(* and the frame count cv2 reads, and the places where a read or a call of *)
(* the captioner may fail (faults: positions in the list of targeted       *)
(* frames, and positions in the list of frame files).                      *)
(***************************************************************************)
FrameRates == {-100, 0, 40, 50, 75, 100, 2997}

ShortVideos ==
    [fps : FrameRates, total_frames : 0..MaxTotal, faults : {0..MaxTotal}]

\* a minute at 30 fps, every read and every call succeeding
MinuteVideo ==
    [fps |-> 3000, total_frames |-> MinuteCount * 60, faults |-> {}]

Videos == ShortVideos \cup {MinuteVideo}

\* at 30 fps: a recording of five and a half hours, of which LongCount
\* frames are sampled, and a clip of six seconds
LongVideos ==
    {[fps |-> 3000, total_frames |-> LongCount * 60, faults |-> {}],
     [fps |-> 3000, total_frames |-> 180, faults |-> {0, 1, 2}]}

Transcripts == {"", "hello world"}
Reasons == {"CUDA out of memory", "cannot identify image file"}

(***************************************************************************)
(* Step 2: the sampling arithmetic and the extraction loop.                *)
(***************************************************************************)
\* if fps <= 0: fps = 30
EffectiveFps(decoded) == IF decoded <= 0 THEN FallbackFps ELSE decoded

\* int(fps * 2) for fps > 0, fps in hundredths: the fraction is cut
FrameInterval(f) == (f * SamplingSeconds) \div 100

\* a range that stops at the last whole step
RangeWholeSteps(total, step) ==
    [k \in 1..(IF total <= 0 THEN 0 ELSE total \div step) |-> (k - 1) * step]

\* list(range(0, total, step)) for step >= 1
Range(total, step) ==
    [k \in 1..(IF total <= 0 THEN 0 ELSE (total + step - 1) \div step) |-> (k - 1) * step]

\* a folder that is made but never emptied
KeepFolder(folder) == folder

\* for f in os.listdir(output_folder): os.remove(...)
ClearFolder(folder) == <<>>

\* cv2.imwrite of a list of files: a file of the same name is replaced
WriteFiles(folder, files) ==
    LET names == {files[k].name : k \in 1..Len(files)}
    IN  SelectSeq(folder, LAMBDA f : f.name \notin names) \o files

\* the frame numbers of Range whose read succeeds, in order; unreadable is the
\* set of positions (from 0) in the list of targets at which read() fails
Decoded(targets, unreadable) ==
    LET kept == SelectSeq([k \in 1..Len(targets) |-> k - 1], LAMBDA k : k \notin unreadable)
    IN  [n \in 1..Len(kept) |-> targets[kept[n] + 1]]

\* The for loop of Step 2: the n-th successful read (saved_count = n - 1 at
\* that point) is written to frame_<saved_count>.jpg.
ExtractFrames(targets, unreadable, r) ==
    LET images == Decoded(targets, unreadable)
    IN  [n \in 1..Len(images) |->
            [name |-> FrameName(n - 1), image |-> [run |-> r, frame |-> images[n]]]]

(***************************************************************************)
(* Steps 4 and 5: the captioner and the analysis loop.                     *)
(***************************************************************************)
\* sorted(glob.glob("frames/*.jpg")); a path stands for the file it names
SortedGlob(folder) ==
    SortSeq(SelectSeq(folder, LAMBDA f : IsJpg(f.name)),
            LAMBDA x, y : LexLess(x.name, y.name))

\* analyze_image_with_phi: the model's answer for the image, or, when anything
\* raises, "Description failed: " followed by the exception's text
analyze_image_with_phi(file, outcome) ==
    IF outcome = "ok"
    THEN [failed |-> FALSE, head |-> "", reason |-> "", image |-> file.image]
    ELSE [failed |-> TRUE, head |-> "Description failed: ", reason |-> outcome,
          image |-> [run |-> 0, frame |-> 0]]

\* a loop that the first exception of the captioner ends
AnalyzeUntilFailure(files, outcomes) ==
    LET bad == {k \in 1..Len(files) : outcomes[k] # "ok"}
        n == IF bad = {} THEN Len(files)
             ELSE (CHOOSE k \in bad : \A j \in bad : k <= j) - 1
    IN  [k \in 1..n |-> analyze_image_with_phi(files[k], outcomes[k])]

\* The for loop of Step 5 over enumerate(frame_files): one call and one
\* frame_descriptions.append(desc) per file; outcomes[k] is what the k-th
\* call of the captioner meets.
AnalyzeFrames(files, outcomes) ==
    [k \in 1..Len(files) |-> analyze_image_with_phi(files[k], outcomes[k])]

(***************************************************************************)
(* Step 6: the report.                                                     *)
(***************************************************************************)
\* a timestamp counted from the entry's number instead of its index
TimestampOfNumber(idx) == (idx + 1) * ReportSeconds

\* timestamp = i * 2
Timestamp(idx) == idx * ReportSeconds

\* f"\n[{i+1}] @ {int(mins):02d}:{int(secs):02d}\n{desc}\n"
Entry(idx, desc) ==
    [num |-> idx + 1,
     mins |-> ZeroPad(Timestamp(idx) \div 60, ClockWidth),
     secs |-> ZeroPad(Timestamp(idx) % 60, ClockWidth),
     text |-> desc]

\* desc[:150]
Preview(desc) == [text |-> desc, limit |-> PreviewBudget]

\* the report, as its sections in the order they are appended
BuildReport(r, path, descs, text) ==
    << [title |-> "VIDEO ANALYSIS REPORT",
        body |-> <<[generated |-> r, file |-> path, frames |-> Len(descs)]>>],
       [title |-> "=== KEY OBSERVATIONS ===",
        body |-> IF descs # <<>>
                 THEN <<Preview(descs[1]), Preview(descs[Len(descs)])>>
                 ELSE <<>>],
       [title |-> "=== DETAILED FRAME DESCRIPTIONS ===",
        body |-> [k \in 1..Len(descs) |-> Entry(k - 1, descs[k])]],
       [title |-> "=== AUDIO TRANSCRIPT ===",
        body |-> <<text>>] >>

(***************************************************************************)
(* The run.                                                                *)
(***************************************************************************)
Stale(file) == IF file = "absent" THEN "absent" ELSE "stale"

\* an uncaught exception: the remaining cells do not run
Raise(e) == pc' = "aborted" /\ err' = e

InitWith(offered) ==
    /\ pc = "step1"
    /\ run = 0
    /\ uploads = offered
    /\ video_path = [fps |-> 0, total_frames |-> 0, faults |-> {}]
    /\ output_folder = <<>>
    /\ stale_frames = 0
    /\ vidcap = FALSE
    /\ fps = 0
    /\ frame_interval = 0
    /\ saved_count = 0
    /\ total_frames = 0
    /\ read_failures = 0
    /\ video = FALSE
    /\ audio_path = "absent"
    /\ whisper_called = FALSE
    /\ transcript = Unset
    /\ frame_files = <<>>
    /\ frame_descriptions = <<>>
    /\ report = NoReport
    /\ report_path = "absent"
    /\ err = NoError

Init == InitWith(Videos)

InitLong == InitWith(LongVideos)

\* Step 1: a video is uploaded and a run starts.  What the previous run left
\* in the variables of the kernel is assigned again before it is read; the
\* folder, the files and the open handles stay as they are.
Step1 ==
    /\ pc \in {"step1", "done", "aborted"}
    /\ run < MaxRuns
    /\ \E v \in uploads : video_path' = v
    /\ run' = run + 1
    /\ pc' = "step2_clear"
    /\ err' = NoError
    /\ fps' = 0
    /\ frame_interval' = 0
    /\ saved_count' = 0
    /\ total_frames' = 0
    /\ read_failures' = 0
    /\ stale_frames' = 0
    /\ whisper_called' = FALSE
    /\ transcript' = Unset
    /\ frame_files' = <<>>
    /\ frame_descriptions' = <<>>
    /\ report' = NoReport
    /\ audio_path' = Stale(audio_path)
    /\ report_path' = Stale(report_path)
    /\ UNCHANGED <<uploads, output_folder, vidcap, video>>

\* Step 2, lines 53-58: the folder is made and emptied
Step2Clear ==
    /\ pc = "step2_clear"
    /\ stale_frames' = Len(output_folder)
    /\ output_folder' = ClearFolder(output_folder)
    /\ pc' = "step2_open"
    /\ UNCHANGED <<run, uploads, video_path, vidcap, fps, frame_interval,
                   saved_count, total_frames, read_failures, video, audio_path,
                   whisper_called, transcript, frame_files, frame_descriptions,
                   report, report_path, err>>

\* Step 2, lines 60-70: the video is opened and the step is computed.  The
\* new VideoCapture replaces the one a previous run may have left open.
Step2Open ==
    /\ pc = "step2_open"
    /\ \E opened \in BOOLEAN :
        IF ~opened
        THEN /\ vidcap' = FALSE
             /\ Raise("Error opening video file")
             /\ UNCHANGED <<fps, frame_interval, saved_count, total_frames>>
        ELSE /\ vidcap' = TRUE
             /\ fps' = EffectiveFps(video_path.fps)
             /\ frame_interval' = FrameInterval(fps')
             /\ saved_count' = 0
             /\ total_frames' = video_path.total_frames
             /\ pc' = "step2_loop"
             /\ err' = err
    /\ UNCHANGED <<run, uploads, video_path, stale_frames, output_folder, read_failures,
                   video, audio_path, whisper_called, transcript, frame_files,
                   frame_descriptions, report, report_path>>

\* Step 2, lines 72-78: the extraction loop.  range() raises ValueError for a
\* step of 0, and the handle is then left open.
Step2Loop ==
    /\ pc = "step2_loop"
    /\ IF frame_interval = 0
       THEN /\ Raise("range() arg 3 must not be zero")
            /\ UNCHANGED <<output_folder, saved_count, read_failures>>
       ELSE LET targets == Range(total_frames, frame_interval)
            IN  \E unreadable \in SUBSET ((0..(Len(targets) - 1)) \cap video_path.faults) :
                    LET files == ExtractFrames(targets, unreadable, run)
                    IN  /\ output_folder' = WriteFiles(output_folder, files)
                        /\ saved_count' = Len(files)
                        /\ read_failures' = Cardinality(unreadable)
                        /\ pc' = "step2_release"
                        /\ err' = err
    /\ UNCHANGED <<run, uploads, video_path, stale_frames, vidcap, fps, frame_interval,
                   total_frames, video, audio_path, whisper_called, transcript,
                   frame_files, frame_descriptions, report, report_path>>

\* Step 2, line 80: vidcap.release()
Step2Release ==
    /\ pc = "step2_release"
    /\ vidcap' = FALSE
    /\ pc' = "step3_extract"
    /\ UNCHANGED <<run, uploads, video_path, stale_frames, output_folder, fps, frame_interval,
                   saved_count, total_frames, read_failures, video, audio_path,
                   whisper_called, transcript, frame_files, frame_descriptions,
                   report, report_path, err>>

\* an except block that prints and does not raise again
AudioFailureLogged == pc' = "step3_transcribe" /\ err' = err

\* except Exception as e: print(...); raise
AudioFailure == Raise("Audio extraction failed")

\* Step 3, lines 110-115: the clip is opened and its audio written.  Without
\* an audio stream video.audio is None, the call raises and the exception is
\* raised again; the clip is not closed.
Step3Extract ==
    /\ pc = "step3_extract"
    /\ video' = TRUE
    /\ \E has_audio \in BOOLEAN :
        IF has_audio
        THEN /\ audio_path' = "fresh"
             /\ pc' = "step3_transcribe"
             /\ err' = err
        ELSE /\ audio_path' = audio_path
             /\ AudioFailure
    /\ UNCHANGED <<run, uploads, video_path, stale_frames, output_folder, vidcap, fps,
                   frame_interval, saved_count, total_frames, read_failures,
                   whisper_called, transcript, frame_files, frame_descriptions,
                   report, report_path>>

\* Step 3, lines 119-124: Whisper transcribes the whole file or raises
Step3Transcribe ==
    /\ pc = "step3_transcribe"
    /\ whisper_called' = TRUE
    /\ \E result \in Transcripts \cup {Unset} :
        IF result = Unset
        THEN /\ transcript' = transcript
             /\ Raise("Transcription failed")
        ELSE /\ transcript' = result
             /\ pc' = "step4_load"
             /\ err' = err
    /\ UNCHANGED <<run, uploads, video_path, stale_frames, output_folder, vidcap, fps,
                   frame_interval, saved_count, total_frames, read_failures,
                   video, audio_path, frame_files, frame_descriptions, report,
                   report_path>>

\* Step 4, lines 139-152: the processor and the model of the captioner are
\* loaded, or the loading raises
Step4Load ==
    /\ pc = "step4_load"
    /\ \E loaded \in BOOLEAN :
        IF loaded
        THEN pc' = "step5_glob" /\ err' = err
        ELSE Raise("Loading Phi-3 Vision failed")
    /\ UNCHANGED <<run, uploads, video_path, stale_frames, output_folder, vidcap,
                   fps, frame_interval, saved_count, total_frames, read_failures,
                   video, audio_path, whisper_called, transcript, frame_files,
                   frame_descriptions, report, report_path>>

\* a listing that is never taken for empty
NoFramesNever(files) == FALSE

\* if not frame_files
NoFrames(files) == files = <<>>

\* Step 5, lines 187-191: the frame files are listed
Step5Glob ==
    /\ pc = "step5_glob"
    /\ frame_descriptions' = <<>>
    /\ frame_files' = SortedGlob(output_folder)
    /\ IF NoFrames(frame_files')
       THEN Raise("No frames found for analysis")
       ELSE pc' = "step5_loop" /\ err' = err
    /\ UNCHANGED <<run, uploads, video_path, stale_frames, output_folder, vidcap, fps,
                   frame_interval, saved_count, total_frames, read_failures,
                   video, audio_path, whisper_called, transcript, report,
                   report_path>>

\* Step 5, lines 195-200: every frame file is captioned
Step5Loop ==
    /\ pc = "step5_loop"
    /\ \E failing \in SUBSET ((0..(Len(frame_files) - 1)) \cap video_path.faults) :
        \E reason \in Reasons :
            LET outcomes == [k \in 1..Len(frame_files) |->
                                IF (k - 1) \in failing THEN reason ELSE "ok"]
            IN  frame_descriptions' = AnalyzeFrames(frame_files, outcomes)
    /\ pc' = "step6"
    /\ UNCHANGED <<run, uploads, video_path, stale_frames, output_folder, vidcap, fps,
                   frame_interval, saved_count, total_frames, read_failures,
                   video, audio_path, whisper_called, transcript, frame_files,
                   report, report_path, err>>

\* Step 6: the report is built and written
Step6 ==
    /\ pc = "step6"
    /\ report' = BuildReport(run, video_path, frame_descriptions, transcript)
    /\ report_path' = "fresh"
    /\ pc' = "done"
    /\ UNCHANGED <<run, uploads, video_path, stale_frames, output_folder, vidcap, fps,
                   frame_interval, saved_count, total_frames, read_failures,
                   video, audio_path, whisper_called, transcript, frame_files,
                   frame_descriptions, err>>

Next ==
    \/ Step1
    \/ Step2Clear
    \/ Step2Open
    \/ Step2Loop
    \/ Step2Release
    \/ Step3Extract
    \/ Step3Transcribe
    \/ Step4Load
    \/ Step5Glob
    \/ Step5Loop
    \/ Step6

Spec == Init /\ [][Next]_vars

\* the same notebook, fed the long upload
SpecLong == InitLong /\ [][Next]_vars

(***************************************************************************)
(* Where a run stands.                                                     *)
(***************************************************************************)
OpenError == "Error opening video file"
StepError == "range() arg 3 must not be zero"
AudioError == "Audio extraction failed"
TranscriptionError == "Transcription failed"
LoadError == "Loading Phi-3 Vision failed"
NoFramesError == "No frames found for analysis"

\* the video was opened and the step computed (line 68 has run)
Opened ==
    \/ pc \in {"step2_loop", "step2_release", "step3_extract", "step3_transcribe",
               "step4_load", "step5_glob", "step5_loop", "step6", "done"}
    \/ pc = "aborted" /\ err # OpenError

\* the extraction loop has run to its end
SamplerDone ==
    \/ pc \in {"step2_release", "step3_extract", "step3_transcribe",
               "step4_load", "step5_glob", "step5_loop", "step6", "done"}
    \/ pc = "aborted"
        /\ err \in {AudioError, TranscriptionError, LoadError, NoFramesError}

\* the frame files have been listed (line 188 has run)
GlobDone ==
    \/ pc \in {"step5_loop", "step6", "done"}
    \/ pc = "aborted" /\ err = NoFramesError

\* the analysis loop has run to its end
AnalysisDone == pc \in {"step6", "done"}

\* ceil(a / b) for a >= 0, b >= 1
CeilDiv(a, b) == CHOOSE n \in 0..a : n * b >= a /\ (n = 0 \/ (n - 1) * b < a)

RECURSIVE NumberOf(_)
\* the number a string of digits writes
NumberOf(d) ==
    IF d = <<>> THEN 0
    ELSE 10 * NumberOf(SubSeq(d, 1, Len(d) - 1)) + (d[Len(d)] - 48)

\* round(x) for x >= 0 given in hundredths, halves to the even neighbour
RoundHundredths(x) ==
    LET q == x \div 100
        r == x % 100
    IN  IF r < 50 THEN q
        ELSE IF r > 50 THEN q + 1
        ELSE IF q % 2 = 0 THEN q ELSE q + 1

\* the detailed list of the report
Entries == report[3].body

\* the seconds an entry's tag MM:SS stands for
TagSeconds(e) == 60 * NumberOf(e.mins) + NumberOf(e.secs)

(***************************************************************************)
(* C1: the analysis loop records exactly one caption per frame: once it    *)
(* has run there are as many captions as frame files and as sampled        *)
(* frames, caption k is the description of the image of frame file k or,   *)
(* when the captioner failed on it, the text "Description failed: " with   *)
(* the reason, at that same position; a failure does not end the loop.     *)
(***************************************************************************)
C1_OneCaptionPerFrame ==
    AnalysisDone =>
        /\ Len(frame_descriptions) = Len(frame_files)
        /\ Len(frame_descriptions) = saved_count
        /\ \A k \in 1..Len(frame_descriptions) :
            LET d == frame_descriptions[k]
            IN  IF d.failed
                THEN d.head = "Description failed: " /\ d.reason \in Reasons
                ELSE d.head = "" /\ d.image = frame_files[k].image

\* the captioner fails on the second of three frames and the run completes
\* with three entries in the report
C1_Witness ==
    /\ pc = "done"
    /\ Len(frame_files) = 3
    /\ Len(Entries) = 3
    /\ ~frame_descriptions[1].failed
    /\ frame_descriptions[2].failed
    /\ ~frame_descriptions[3].failed
    /\ frame_descriptions[3].image = frame_files[3].image

(***************************************************************************)
(* C2: the frame files are enumerated, and so captioned, in the order of   *)
(* their sequence index, which is the order of their source frame numbers, *)
(* for any number of sampled frames.                                       *)
(***************************************************************************)
C2_TimelineOrder ==
    GlobDone =>
        \A k \in 1..Len(frame_files) :
            /\ frame_files[k].name = FrameName(k - 1)
            /\ k > 1 => frame_files[k - 1].image.frame < frame_files[k].image.frame

(***************************************************************************)
(* C3: the step is round(frameRate x interval), with the rate 30 when the  *)
(* decoded rate is <= 0, and it is a positive integer.                     *)
(***************************************************************************)
C3_StepIsRounded ==
    Opened =>
        LET rate == IF video_path.fps <= 0 THEN FallbackFps ELSE video_path.fps
        IN  /\ frame_interval = RoundHundredths(rate * SamplingSeconds)
            /\ frame_interval >= 1

(***************************************************************************)
(* C4: the sampler targets ceil(totalFrames / step) frames; the frames it  *)
(* produces are the targets whose read succeeded, numbered from 0 without  *)
(* a gap, and a failed read does not end the run; when every read succeeds *)
(* the frames are the source frames 0, step, 2*step, ... below             *)
(* totalFrames.                                                            *)
(***************************************************************************)
C4_SampledCount ==
    SamplerDone =>
        /\ frame_interval >= 1
        /\ saved_count + read_failures = CeilDiv(total_frames, frame_interval)
        /\ Len(output_folder) = saved_count
        /\ \A k \in 1..Len(output_folder) : output_folder[k].name = FrameName(k - 1)
        /\ read_failures = 0 =>
            \A k \in 1..Len(output_folder) :
                /\ output_folder[k].image.frame = (k - 1) * frame_interval
                /\ output_folder[k].image.frame < total_frames

\* three source frames and a step of two: two targets, one read fails, one
\* frame is produced and the run goes on to its end
C4_Witness ==
    /\ pc = "done"
    /\ total_frames = 3
    /\ frame_interval = 2
    /\ read_failures = 1
    /\ saved_count = 1

(***************************************************************************)
(* C5: the frame with sequence index k is the source frame k x step, also  *)
(* in runs where reads failed.                                             *)
(***************************************************************************)
C5_IndexTimesStep ==
    SamplerDone =>
        \A k \in 1..Len(output_folder) :
            output_folder[k].name = FrameName(k - 1) =>
                output_folder[k].image.frame = (k - 1) * frame_interval

(***************************************************************************)
(* C6: the detailed list of the report has one entry per caption, in       *)
(* order; entry i (from 0) is numbered i + 1 and tagged with the minutes   *)
(* floor(i x I / 60) and the seconds i x I mod 60, I being the sampler's   *)
(* interval; the tags increase strictly down the list; the transcript      *)
(* section comes last and holds exactly the transcript.                    *)
(***************************************************************************)
C6_ReportLayout ==
    pc = "done" =>
        /\ Len(Entries) = Len(frame_descriptions)
        /\ \A k \in 1..Len(Entries) :
            /\ Entries[k].num = k
            /\ Entries[k].text = frame_descriptions[k]
            /\ Len(Entries[k].mins) >= 2
            /\ Len(Entries[k].secs) = 2
            /\ NumberOf(Entries[k].mins) = ((k - 1) * SamplingSeconds) \div 60
            /\ NumberOf(Entries[k].secs) = ((k - 1) * SamplingSeconds) % 60
            /\ k > 1 => TagSeconds(Entries[k - 1]) < TagSeconds(Entries[k])
        /\ report[Len(report)].title = "=== AUDIO TRANSCRIPT ==="
        /\ report[Len(report)].body = <<transcript>>

\* a report of more than thirty entries that starts @ 00:00, @ 00:02,
\* @ 00:04, reaches @ 01:00 and ends with "hello world"
C6_Witness ==
    /\ pc = "done"
    /\ transcript = "hello world"
    /\ Len(Entries) >= 31
    /\ Entries[1].mins = <<48, 48>> /\ Entries[1].secs = <<48, 48>>
    /\ Entries[2].mins = <<48, 48>> /\ Entries[2].secs = <<48, 50>>
    /\ Entries[3].mins = <<48, 48>> /\ Entries[3].secs = <<48, 52>>
    /\ Entries[31].mins = <<48, 49>> /\ Entries[31].secs = <<48, 48>>

\* the duration total_frames / fps is below the sampling interval
ShorterThanInterval ==
    /\ video_path.fps > 0
    /\ video_path.total_frames * 100 < SamplingSeconds * video_path.fps

(***************************************************************************)
(* C7, as claimed: once the frame files are listed, the error "No frames   *)
(* found" is raised exactly when the sampler returned zero frames, which   *)
(* is the case of a video shorter than the sampling interval, and then no  *)
(* report is written.                                                      *)
(***************************************************************************)
C7_AsClaimed ==
    GlobDone =>
        /\ (saved_count = 0 \/ ShorterThanInterval) <=> err = NoFramesError
        /\ err = NoFramesError => report_path # "fresh"

(***************************************************************************)
(* C7, amended: the error "No frames found" is raised exactly when the run *)
(* reaches the listing of the frame files with zero sampled frames, that   *)
(* is when every targeted frame failed to decode (or there was none); a    *)
(* video shorter than the interval with a readable first frame yields one  *)
(* frame.  When it is raised the run ends before the report is built: no   *)
(* report with an empty detailed list is written.                          *)
(***************************************************************************)
C7_EmptyAnalysis ==
    /\ GlobDone => (saved_count = 0 <=> err = NoFramesError)
    /\ err = NoFramesError =>
        /\ pc = "aborted"
        /\ transcript # Unset
        /\ saved_count = 0
        /\ read_failures = CeilDiv(total_frames, frame_interval)
        /\ frame_descriptions = <<>>
        /\ report = NoReport
        /\ report_path # "fresh"
    /\ report_path = "fresh" => Len(Entries) >= 1
    /\ GlobDone /\ ShorterThanInterval /\ read_failures = 0 /\ total_frames > 0
        => saved_count = 1 /\ err = NoError

\* every targeted frame failed to decode and the run ended with the error
C7_Witness ==
    /\ pc = "aborted"
    /\ err = NoFramesError
    /\ read_failures >= 1
    /\ report_path # "fresh"

(***************************************************************************)
(* C8: a fatal error ends the run: after a failure to open the video, to   *)
(* extract the audio or to transcribe it, no later stage has run and no    *)
(* report is written; without audio the transcriber is never called; a     *)
(* written report holds the whole transcript; a run ends with a written    *)
(* report or with one error, never both.                                   *)
(***************************************************************************)
C8_FatalErrorsUnwind ==
    /\ err = OpenError =>
        /\ saved_count = 0 /\ output_folder = <<>>
        /\ audio_path # "fresh" /\ ~whisper_called
    /\ err \in {OpenError, StepError, AudioError, TranscriptionError} =>
        transcript = Unset
    /\ err \in {OpenError, StepError, AudioError, TranscriptionError, LoadError} =>
        frame_files = <<>> /\ frame_descriptions = <<>>
    /\ err = AudioError => ~whisper_called /\ audio_path # "fresh"
    /\ whisper_called => audio_path = "fresh"
    /\ err = TranscriptionError => whisper_called
    /\ err # NoError <=> pc = "aborted"
    /\ pc = "aborted" => report_path # "fresh" /\ report = NoReport
    /\ pc = "done" => report_path = "fresh"
    /\ report_path = "fresh" =>
        /\ pc = "done"
        /\ whisper_called
        /\ transcript \in Transcripts
        /\ report[Len(report)].body = <<transcript>>

\* a second run whose video has no audio stream: frames were sampled, the
\* transcriber was not called, the report on disk is the earlier run's
C8_Witness ==
    /\ pc = "aborted"
    /\ err = AudioError
    /\ saved_count >= 1
    /\ ~whisper_called
    /\ report_path = "stale"

(***************************************************************************)
(* C9: at most one video handle is open at a time; the handle of the       *)
(* sampler is released before the audio is extracted, and the handle of    *)
(* the audio extraction before transcription, captioning and the report.   *)
(***************************************************************************)
C9_HandlesReleased ==
    /\ ~(vidcap /\ video)
    /\ pc \in {"step3_extract", "step3_transcribe", "step4_load", "step5_glob",
               "step5_loop", "step6", "done"} => ~vidcap
    /\ pc \in {"step3_transcribe", "step4_load", "step5_glob", "step5_loop",
               "step6", "done"} => ~video

(***************************************************************************)
(* C10: a replay starts from an empty folder: the files an earlier run     *)
(* left are removed before the first frame is written, after sampling the  *)
(* folder holds exactly the frames 0 .. n-1 of this run, and these are the *)
(* frames that are listed and captioned.                                   *)
(***************************************************************************)
C10_ReplayStable ==
    /\ pc \in {"step2_open", "step2_loop"} => output_folder = <<>>
    /\ SamplerDone =>
        /\ Len(output_folder) = saved_count
        /\ \A k \in 1..Len(output_folder) :
            /\ output_folder[k].name = FrameName(k - 1)
            /\ output_folder[k].image.run = run
    /\ GlobDone =>
        /\ Len(frame_files) = saved_count
        /\ \A k \in 1..Len(frame_files) : frame_files[k].image.run = run
    /\ AnalysisDone =>
        /\ Len(frame_descriptions) = saved_count
        /\ \A k \in 1..Len(frame_descriptions) :
            ~frame_descriptions[k].failed => frame_descriptions[k].image.run = run

\* a run that found three frames of an earlier run, sampled one and
\* captioned that one
C10_Witness ==
    /\ pc = "done"
    /\ run >= 2
    /\ stale_frames = 3
    /\ saved_count = 1
    /\ Len(frame_descriptions) = 1

====
